---- MODULE Spec2Model ----
(***************************************************************************)
(* Model of aws-budget-setter: the budget job in its two variants          *)
(* (lambda_function.py: update-in-place, 80/100 %, 15 % markup;            *)
(* src/budgetsetter/main.py: delete-and-recreate, 105/120 %, 50 USD floor) *)
(* and the metadata harvester (src/metadata_retriever/main.py).            *)
(*                                                                         *)
(* Strings are sequences of tokens: a token is either the hyphen "-" or a  *)
(* hyphen-free piece of text, so splitting on '-' is computed on the       *)
(* sequence.  Costs and limits are integers, in cents.                     *)
(***************************************************************************)
EXTENDS Integers, Sequences, FiniteSets, TLC

VARIABLES
    entry,      \* which entry point runs: "lambda_function", "budgetsetter", "metadata_retriever"
    pc,         \* position of the running handler
    result,     \* what the handler returned: "none", "success", "no_match", "error", "raised"
    accounts,   \* result of get_all_accounts: sequence of [name, id]
    groups,     \* workload_accounts: insertion-ordered dict, a sequence of [key, val]
    idx,        \* index in groups of the workload being processed
    metadata,   \* metadata_mapping: insertion-ordered dict account id -> [email]
    costResp,   \* last response of get_cost_and_usage
    cost,       \* last value returned by get_cost_for_workload (cents)
    made,       \* kinds of external calls made in this run
    failed,     \* kinds of external calls that failed in this run
    events,     \* per-workload processing steps of this run, in order
    platform,   \* the budget platform: budget name -> budget or NoBudget
    rpc,        \* position inside create_or_update_budget
    rin,        \* arguments of the running create_or_update_budget call
    exists,     \* local variable exists of create_or_update_budget
    ti,         \* index of the threshold the notification loop is at
    calls,      \* budget API calls attempted by the running call, with outcome
    runs,       \* number of completed create_or_update_budget calls
    snap,       \* platform as it was when the running (or last) call started
    cleanRuns,  \* number of most recent consecutive calls in which no API call failed
    prior,      \* platform as it was when the entry point started
    rows,       \* harvester: dict_list, the decoded rows of the CMDB extract
    s3,         \* object store: key -> content written, or NoObject
    frame,      \* a function called on its own: its name and its arguments
    ret         \* what the function of frame returned

jobVars == <<entry, pc, result, accounts, groups, idx, metadata, costResp, cost, made, failed,
            events>>
recVars == <<platform, rpc, rin, exists, ti, calls, runs, snap, cleanRuns, prior>>
callVars == <<frame, ret>>
vars == <<jobVars, recVars, rows, s3, callVars>>

-----------------------------------------------------------------------------
(* Bounds of the model *)
MaxAccounts == 3

MaxRuns == 2

-----------------------------------------------------------------------------
(* Text *)
Hyphen == "-"

HasHyphen(s) == \E i \in 1..Len(s) : s[i] = Hyphen

FirstHyphen(s) == CHOOSE i \in 1..Len(s) : s[i] = Hyphen /\ \A j \in 1..(i-1) : s[j] # Hyphen

LastHyphen(s) == CHOOSE i \in 1..Len(s) : s[i] = Hyphen /\ \A j \in (i+1)..Len(s) : s[j] # Hyphen

\* str.split("-", 1): the split at the first hyphen, not the last
RSplit1_first(s) ==
    IF HasHyphen(s)
    THEN <<SubSeq(s, 1, FirstHyphen(s) - 1), SubSeq(s, FirstHyphen(s) + 1, Len(s))>>
    ELSE <<s>>

\* str.rsplit("-", 1)
RSplit1(s) ==
    IF HasHyphen(s)
    THEN <<SubSeq(s, 1, LastHyphen(s) - 1), SubSeq(s, LastHyphen(s) + 1, Len(s))>>
    ELSE <<s>>

-----------------------------------------------------------------------------
(* Insertion-ordered dictionaries (Python dict): sequences of [key, val] with
   distinct keys *)
EmptyDict == <<>>

DictKeys(d) == {d[i].key : i \in 1..Len(d)}

DictGet(d, k, default) ==
    IF k \in DictKeys(d)
    THEN d[CHOOSE i \in 1..Len(d) : d[i].key = k].val
    ELSE default

\* defaultdict(list)[k].append(v)
DictAppendTo(d, k, v) ==
    IF k \in DictKeys(d)
    THEN [i \in 1..Len(d) |-> IF d[i].key = k
                              THEN [key |-> k, val |-> Append(d[i].val, v)]
                              ELSE d[i]]
    ELSE Append(d, [key |-> k, val |-> <<v>>])

-----------------------------------------------------------------------------
(* Workload Grouper *)

\* one iteration of the loop over accounts
GroupStep(wa, account) ==
    IF HasHyphen(account.name)
    THEN LET parts == RSplit1(account.name)
         IN  IF Len(parts) = 2
             THEN DictAppendTo(wa, parts[1], account.id)
             ELSE wa
    ELSE wa

RECURSIVE GroupFrom(_, _, _)
GroupFrom(accs, i, wa) ==
    IF i > Len(accs) THEN wa ELSE GroupFrom(accs, i + 1, GroupStep(wa, accs[i]))

group_accounts_by_workload(accs) == GroupFrom(accs, 1, EmptyDict)

-----------------------------------------------------------------------------
(* Inputs *)
AccountNames ==
    { <<"app", "-", "prod">>, <<"app", "-", "dev">>, <<"my", "-", "app", "-", "prod">>,
      <<"finopsmanagement", "-", "prod">>, <<"noenv">>, <<"-", "prod">> }

AccountIds == {"111", "222"}

AccountSet == [name : AccountNames, id : AccountIds]

SeqsUpTo(S, n) == UNION {[1..k -> S] : k \in 0..n}

-----------------------------------------------------------------------------
(* The budget platform (AWS Budgets under the managing account) *)
None == "<None>"

NoBudget == [present |-> FALSE, limit |-> 0, ids |-> <<>>, notifs |-> {}]

MkBudget(limit, ids, notifs) ==
    [present |-> TRUE, limit |-> limit, ids |-> ids, notifs |-> notifs]

MkNotif(threshold, subs) == [threshold |-> threshold, subs |-> subs]

Thresholds(b) == {n.threshold : n \in b.notifs}

\* Each operation returns [out, p]: the answer of the service and the platform
\* after it.  out is "ok", "NotFound", "Duplicate", or "error" when the call
\* fails for any other reason (fail = TRUE), in which case nothing changes.
ApiDescribeBudget(p, name, fail) ==
    IF fail THEN [out |-> "error", p |-> p]
    ELSE IF ~p[name].present THEN [out |-> "NotFound", p |-> p]
    ELSE [out |-> "ok", p |-> p]

ApiUpdateBudget(p, name, limit, ids, fail) ==
    IF fail THEN [out |-> "error", p |-> p]
    ELSE IF ~p[name].present THEN [out |-> "NotFound", p |-> p]
    ELSE [out |-> "ok",
          p |-> [p EXCEPT ![name] = MkBudget(limit, ids, p[name].notifs)]]

ApiCreateBudget(p, name, limit, ids, notifs, fail) ==
    IF fail THEN [out |-> "error", p |-> p]
    ELSE IF p[name].present THEN [out |-> "Duplicate", p |-> p]
    ELSE [out |-> "ok", p |-> [p EXCEPT ![name] = MkBudget(limit, ids, notifs)]]

ApiDeleteBudget(p, name, fail) ==
    IF fail THEN [out |-> "error", p |-> p]
    ELSE IF ~p[name].present THEN [out |-> "NotFound", p |-> p]
    ELSE [out |-> "ok", p |-> [p EXCEPT ![name] = NoBudget]]

ApiDeleteNotification(p, name, threshold, fail) ==
    IF fail THEN [out |-> "error", p |-> p]
    ELSE IF ~p[name].present \/ threshold \notin Thresholds(p[name])
    THEN [out |-> "NotFound", p |-> p]
    ELSE [out |-> "ok",
          p |-> [p EXCEPT ![name].notifs = {n \in @ : n.threshold # threshold}]]

ApiCreateNotification(p, name, threshold, subs, fail) ==
    IF fail THEN [out |-> "error", p |-> p]
    ELSE IF ~p[name].present THEN [out |-> "NotFound", p |-> p]
    ELSE IF threshold \in Thresholds(p[name]) THEN [out |-> "Duplicate", p |-> p]
    ELSE [out |-> "ok",
          p |-> [p EXCEPT ![name].notifs = @ \cup {MkNotif(threshold, subs)}]]

-----------------------------------------------------------------------------
(* Budget Reconciler: what both variants share *)
LambdaEntry == "lambda_function"
MainEntry == "budgetsetter"
HarvesterEntry == "metadata_retriever"

\* f"{budget_amount:.2f}": amounts are in hundredths of a cent, the rendering is
\* in cents.  Binary floating point decides an exact tie (..50) either way;
\* tieUp is the way it decides for this amount.
Format2f(amount, tieUp) ==
    LET q == amount \div 100
        r == amount % 100
    IN  IF r > 50 \/ (r = 50 /\ tieUp) THEN q + 1 ELSE q

IsTie(amount) == amount % 100 = 50

\* budget_object["BudgetLimit"]["Amount"]
BudgetLimit(in) == Format2f(in.amount, in.tieUp)

Truthy(str) == str # None /\ str # ""

\* one attempted budget API call: the operation, the budget it names, the
\* threshold (notification calls), the notifications it submits, the answer
LogCall(op, name, threshold, notifs, out) ==
    [op |-> op, name |-> name, threshold |-> threshold, notifs |-> notifs, out |-> out]

\* entering create_or_update_budget with arguments `in`
EnterReconcile(in) ==
    /\ rpc = "idle"
    /\ rpc' = "describe"
    /\ rin' = in
    /\ exists' = FALSE
    /\ ti' = 1
    /\ calls' = <<>>
    /\ snap' = platform
    /\ UNCHANGED <<platform, runs, cleanRuns, prior>>

\* outcomes the code treats as the expected answer, not as a failure
Expected(c) ==
    \/ c.out = "ok"
    \/ c.op = "describe_budget" /\ c.out = "NotFound"
    \/ c.op = "delete_notification" /\ c.out = "NotFound"

Clean(log) == \A i \in 1..Len(log) : Expected(log[i])

\* create_or_update_budget returns (None)
LeaveReconcile ==
    /\ rpc = "end"
    /\ rpc' = "idle"
    /\ runs' = runs + 1
    /\ cleanRuns' = IF Clean(calls) THEN cleanRuns + 1 ELSE 0
    /\ calls' = <<>>
    /\ UNCHANGED <<platform, rin, exists, ti, snap, prior>>

\* what no step of create_or_update_budget touches
recFrame == <<runs, snap, cleanRuns, prior, rin, jobVars, rows, s3, callVars>>

-----------------------------------------------------------------------------
(* Budget Reconciler, update-in-place variant (lambda_function.py) *)
LambdaFinops == "finops@asnbank.nl"

LambdaThresholds == <<80, 100>>

\* the subscriber list built in the notification loop
LambdaSubscribers(workload_email) == <<LambdaFinops>>

lf_describe_budget ==
    /\ entry = LambdaEntry /\ rpc = "describe"
    /\ \E fail \in BOOLEAN :
         LET r == ApiDescribeBudget(platform, rin.name, fail)
         IN  /\ exists' = (r.out = "ok")
             /\ calls' = Append(calls, LogCall("describe_budget", rin.name, 0, {}, r.out))
             /\ platform' = r.p
    /\ rpc' = "write"
    /\ UNCHANGED <<ti, recFrame>>

lf_update_budget ==
    /\ entry = LambdaEntry /\ rpc = "write" /\ exists
    /\ \E fail \in BOOLEAN :
         LET r == ApiUpdateBudget(platform, rin.name, BudgetLimit(rin), rin.ids, fail)
         IN  /\ calls' = Append(calls, LogCall("update_budget", rin.name, 0, {}, r.out))
             /\ platform' = r.p
    /\ rpc' = "delete_notification"
    /\ UNCHANGED <<exists, ti, recFrame>>

lf_create_budget ==
    /\ entry = LambdaEntry /\ rpc = "write" /\ ~exists
    /\ \E fail \in BOOLEAN :
         LET r == ApiCreateBudget(platform, rin.name, BudgetLimit(rin), rin.ids, {}, fail)
         IN  /\ calls' = Append(calls, LogCall("create_budget", rin.name, 0, {}, r.out))
             /\ platform' = r.p
    /\ rpc' = "delete_notification"
    /\ UNCHANGED <<exists, ti, recFrame>>

lf_delete_notification ==
    /\ entry = LambdaEntry /\ rpc = "delete_notification"
    /\ \E fail \in BOOLEAN :
         LET r == ApiDeleteNotification(platform, rin.name, LambdaThresholds[ti], fail)
         IN  /\ calls' = Append(calls, LogCall("delete_notification", rin.name,
                                               LambdaThresholds[ti], {}, r.out))
             /\ platform' = r.p
    /\ rpc' = "create_notification"
    /\ UNCHANGED <<exists, ti, recFrame>>

lf_create_notification ==
    /\ entry = LambdaEntry /\ rpc = "create_notification"
    /\ \E fail \in BOOLEAN :
         LET r == ApiCreateNotification(platform, rin.name, LambdaThresholds[ti],
                                        LambdaSubscribers(rin.email), fail)
         IN  /\ calls' = Append(calls, LogCall("create_notification", rin.name, LambdaThresholds[ti],
                                 {MkNotif(LambdaThresholds[ti], LambdaSubscribers(rin.email))},
                                 r.out))
             /\ platform' = r.p
    /\ IF ti < Len(LambdaThresholds)
       THEN ti' = ti + 1 /\ rpc' = "delete_notification"
       ELSE ti' = ti /\ rpc' = "end"
    /\ UNCHANGED <<exists, recFrame>>

LambdaReconcile ==
    \/ lf_describe_budget
    \/ lf_update_budget
    \/ lf_create_budget
    \/ lf_delete_notification
    \/ lf_create_notification

-----------------------------------------------------------------------------
(* Budget Reconciler, delete-and-recreate variant (src/budgetsetter/main.py) *)
finops_email == "finops@example.org"

format_notification(budget_percentage, workload_email) ==
    IF Truthy(workload_email) /\ workload_email # finops_email
    THEN MkNotif(budget_percentage, <<finops_email, workload_email>>)
    ELSE MkNotif(budget_percentage, <<finops_email>>)

notifications_with_subscribers(workload_email) ==
    <<format_notification(105, workload_email), format_notification(120, workload_email)>>

SeqRange(q) == {q[i] : i \in 1..Len(q)}

\* an error of describe_budget other than not-found ends the function: neither
\* delete nor create is attempted
bs_describe_budget_return ==
    /\ entry = MainEntry /\ rpc = "describe"
    /\ \E fail \in BOOLEAN :
         LET r == ApiDescribeBudget(platform, rin.name, fail)
         IN  /\ exists' = (r.out = "ok")
             /\ calls' = Append(calls, LogCall("describe_budget", rin.name, 0, {}, r.out))
             /\ platform' = r.p
             /\ rpc' = IF r.out = "error" THEN "end"
                       ELSE IF exists' THEN "delete" ELSE "create"
    /\ UNCHANGED <<ti, recFrame>>

bs_describe_budget ==
    /\ entry = MainEntry /\ rpc = "describe"
    /\ \E fail \in BOOLEAN :
         LET r == ApiDescribeBudget(platform, rin.name, fail)
         IN  /\ exists' = (r.out = "ok")
             /\ calls' = Append(calls, LogCall("describe_budget", rin.name, 0, {}, r.out))
             /\ platform' = r.p
             /\ rpc' = IF exists' THEN "delete" ELSE "create"
    /\ UNCHANGED <<ti, recFrame>>

\* delete_budget outside any try block: a failure leaves the function
bs_delete_budget_unguarded ==
    /\ entry = MainEntry /\ rpc = "delete" /\ exists
    /\ \E fail \in BOOLEAN :
         LET r == ApiDeleteBudget(platform, rin.name, fail)
         IN  /\ calls' = Append(calls, LogCall("delete_budget", rin.name, 0, {}, r.out))
             /\ platform' = r.p
             /\ rpc' = IF r.out = "ok" THEN "create" ELSE "raised"
    /\ UNCHANGED <<exists, ti, recFrame>>

bs_delete_budget ==
    /\ entry = MainEntry /\ rpc = "delete" /\ exists
    /\ \E fail \in BOOLEAN :
         LET r == ApiDeleteBudget(platform, rin.name, fail)
         IN  /\ calls' = Append(calls, LogCall("delete_budget", rin.name, 0, {}, r.out))
             /\ platform' = r.p
    /\ rpc' = "create"
    /\ UNCHANGED <<exists, ti, recFrame>>

bs_create_budget ==
    /\ entry = MainEntry /\ rpc = "create"
    /\ \E fail \in BOOLEAN :
         LET r == ApiCreateBudget(platform, rin.name, BudgetLimit(rin), rin.ids,
                                  SeqRange(notifications_with_subscribers(rin.email)), fail)
         IN  /\ calls' = Append(calls, LogCall("create_budget", rin.name, 0,
                                    SeqRange(notifications_with_subscribers(rin.email)), r.out))
             /\ platform' = r.p
    /\ rpc' = "end"
    /\ UNCHANGED <<exists, ti, recFrame>>

MainReconcile ==
    \/ bs_describe_budget
    \/ bs_delete_budget
    \/ bs_create_budget

-----------------------------------------------------------------------------
(* Budget names and the states the platform can be in before a run *)
\* one name for every workload
budget_name_fixed(workload) == <<"AUTO", "-", "workload">>

\* f"AUTO-workload-{workload}"
budget_name(workload) == <<"AUTO", "-", "workload", "-">> \o workload

WorkloadKeys ==
    {RSplit1(n)[1] : n \in {m \in AccountNames : HasHyphen(m)}}

BudgetNames == {budget_name(w) : w \in WorkloadKeys}

OldSubscribers == <<"old@example.org">>

OldNotifs(ts) == {MkNotif(t, OldSubscribers) : t \in ts}

PriorBudgets ==
    {NoBudget} \cup
    {MkBudget(700, <<"999">>, OldNotifs(ts)) :
        ts \in {{}, {80, 100}, {105, 120}, {80, 105}, {80, 100, 105, 120}}}

AppBudget == budget_name(<<"app">>)
MyAppBudget == budget_name(<<"my", "-", "app">>)

PriorPlatforms ==
    {[n \in BudgetNames |-> IF n = AppBudget THEN b
                            ELSE IF n = MyAppBudget THEN c
                            ELSE NoBudget] :
        b \in PriorBudgets, c \in {NoBudget, MkBudget(700, <<"999">>, OldNotifs({80, 105}))}}

NoArgs == [name |-> AppBudget, amount |-> 0, tieUp |-> FALSE, ids |-> <<>>, email |-> None]

Emails == {None, "", finops_email, "team@example.org"}

\* amounts in hundredths of a cent: 50.00 USD, and 0.10 USD * 1.15, a tie
Amounts == {500000, 1150}

ReconcileArgs ==
    {[name |-> AppBudget, amount |-> a, tieUp |-> t, ids |-> <<"111">>, email |-> e] :
        a \in Amounts, t \in BOOLEAN, e \in Emails}

-----------------------------------------------------------------------------
(* Initial states *)
JobIdle ==
    /\ pc = "idle"
    /\ result = "none"
    /\ accounts = <<>>
    /\ groups = EmptyDict
    /\ idx = 0
    /\ metadata = EmptyDict
    /\ costResp = [kind |-> "none", amount |-> 0]
    /\ cost = 0
    /\ made = {}
    /\ failed = {}
    /\ events = <<>>

RecIdle ==
    /\ rpc = "idle"
    /\ rin = NoArgs
    /\ exists = FALSE
    /\ ti = 1
    /\ calls = <<>>
    /\ runs = 0
    /\ cleanRuns = 0
    /\ snap = platform
    /\ prior = platform

NoObject == [written |-> FALSE, body |-> <<>>]

S3Keys == {"cudos", "finops_automation"}

S3Idle == s3 = [k \in S3Keys |-> NoObject] /\ rows = <<>>

NoCall == [fn |-> "none", args |-> <<>>]

CallIdle == frame = NoCall /\ ret = None

-----------------------------------------------------------------------------
(* create_or_update_budget called twice in a row with the same arguments *)
ReconcileInit ==
    /\ entry \in {LambdaEntry, MainEntry}
    /\ platform \in PriorPlatforms
    /\ JobIdle /\ RecIdle /\ S3Idle /\ CallIdle

rc_call ==
    /\ runs < MaxRuns
    /\ \E in \in ReconcileArgs :
         /\ IsTie(in.amount) \/ ~in.tieUp
         /\ runs > 0 => in = rin
         /\ EnterReconcile(in)
    /\ UNCHANGED <<jobVars, rows, s3, callVars>>

rc_return ==
    /\ LeaveReconcile
    /\ UNCHANGED <<jobVars, rows, s3, callVars>>

ReconcileNext ==
    \/ rc_call
    \/ LambdaReconcile
    \/ MainReconcile
    \/ rc_return

SpecReconcile == ReconcileInit /\ [][ReconcileNext]_vars

-----------------------------------------------------------------------------
(* Cost Retriever *)
CostAmounts == {10, 1000, 20000}

\* what ce_client.get_cost_and_usage can answer: an exception, no result rows,
\* a first row without the amount, an amount that is no number, an amount (cents)
CostResponses ==
    {[kind |-> k, amount |-> 0] : k \in {"error", "no_results", "no_amount", "bad_amount"}}
    \cup {[kind |-> "amount", amount |-> a] : a \in CostAmounts}

\* the query outside any try block: an exception leaves the function
get_cost_for_workload_unguarded(resp) ==
    IF resp.kind = "error" THEN [raised |-> TRUE, value |-> 0]
    ELSE IF resp.kind = "amount" THEN [raised |-> FALSE, value |-> resp.amount]
    ELSE [raised |-> FALSE, value |-> 0]

\* [raised, value]: whether an exception leaves the function, else what it returns
get_cost_for_workload(resp) ==
    IF resp.kind = "error" THEN [raised |-> FALSE, value |-> 0]
    ELSE IF resp.kind = "no_results" THEN [raised |-> FALSE, value |-> 0]
    ELSE IF resp.kind = "bad_amount" THEN [raised |-> FALSE, value |-> 0]
    ELSE IF resp.kind = "no_amount" THEN [raised |-> FALSE, value |-> 0]
    ELSE [raised |-> FALSE, value |-> resp.amount]

-----------------------------------------------------------------------------
(* Metadata Store Accessor *)
ignore_emails_for_workloads == {<<"finopsmanagement">>, <<"cloudintelligencedashboard">>}

NotFoundText == <<"Not found">>

\* json.loads of the JSON text null gives None instead of a dict; None in the
\* place of a mapping is written as the one entry keyed by None, which no
\* mapping of account ids is
NullMapping == <<[key |-> None, val |-> [email |-> None]]>>

\* what get_object + decode + json.loads can give: a failure of the read, a
\* body that does not decode, or the mapping account id -> [email]
MetadataObjects ==
    { [kind |-> "get_failed", mapping |-> EmptyDict],
      [kind |-> "decode_failed", mapping |-> EmptyDict],
      [kind |-> "ok", mapping |-> EmptyDict],
      [kind |-> "ok", mapping |-> NullMapping],
      [kind |-> "ok", mapping |-> <<[key |-> "111", val |-> [email |-> None]],
                                    [key |-> "222", val |-> [email |-> "team@example.org"]]>>],
      [kind |-> "ok", mapping |-> <<[key |-> "111", val |-> [email |-> ""]]>>],
      [kind |-> "ok", mapping |-> <<[key |-> "111", val |-> [email |-> finops_email]]>>] }

load_metadata_from_s3(obj) ==
    IF obj.kind = "get_failed" THEN EmptyDict
    ELSE IF obj.kind = "decode_failed" THEN EmptyDict
    ELSE obj.mapping

\* the loop with a truth test (if email:) in place of "is not None": an empty
\* email is passed over
RECURSIVE FirstEmail_truthy(_, _, _)
FirstEmail_truthy(account_ids, i, mapping) ==
    IF i > Len(account_ids) THEN None
    ELSE LET email == DictGet(mapping, account_ids[i], [email |-> None]).email
         IN  IF Truthy(email) THEN email ELSE FirstEmail_truthy(account_ids, i + 1, mapping)

\* the loop over account_ids: metadata.get(account_id, {}).get("email", None)
RECURSIVE FirstEmail(_, _, _)
FirstEmail(account_ids, i, mapping) ==
    IF i > Len(account_ids) THEN None
    ELSE LET email == DictGet(mapping, account_ids[i], [email |-> None]).email
         IN  IF email # None THEN email ELSE FirstEmail(account_ids, i + 1, mapping)

retrieve_metadata_per_workload(workload, account_ids, mapping) ==
    IF workload \in ignore_emails_for_workloads THEN None
    ELSE IF mapping = NullMapping THEN None
    ELSE IF workload = NotFoundText THEN None
    ELSE FirstEmail(account_ids, 1, mapping)

-----------------------------------------------------------------------------
(* The budget job: lambda_handler (lambda_function.py) and handler
   (src/budgetsetter/main.py) *)
Acc(name, id) == [name |-> name, id |-> id]

\* what get_all_accounts can return
Listings ==
    { <<>>,
      <<Acc(<<"noenv">>, "111")>>,
      <<Acc(<<"app", "-", "prod">>, "111"), Acc(<<"app", "-", "dev">>, "222")>>,
      <<Acc(<<"app", "-", "prod">>, "111"), Acc(<<"noenv">>, "222"),
        Acc(<<"my", "-", "app", "-", "prod">>, "222")>>,
      <<Acc(<<"finopsmanagement", "-", "prod">>, "222"), Acc(<<"app", "-", "dev">>, "111")>> }

FloorCents == 5000

\* budget_amount = cost * 1.15, in hundredths of a cent
MarkupAmount(c) == c * 115

\* the comparison reversed: costs above 50 are cut down to 50
FloorCost_above(c) == IF c > FloorCents THEN FloorCents ELSE c

\* if cost < 50: cost = 50, in cents
FloorCost(c) == IF c < FloorCents THEN FloorCents ELSE c

Raise ==
    /\ result' = "raised"
    /\ pc' = "done"

Event(workload, step) == [workload |-> workload, step |-> step]

\* sts_client.get_caller_identity(), outside any try block
get_caller_identity(e) ==
    /\ entry = e /\ pc = "start"
    /\ made' = made \cup {"identity"}
    /\ \E fail \in BOOLEAN :
         IF fail
         THEN failed' = failed \cup {"identity"} /\ Raise
         ELSE failed' = failed /\ pc' = "list" /\ result' = result
    /\ UNCHANGED <<entry, accounts, groups, idx, metadata, costResp, cost, events, recVars, rows, s3, callVars>>

\* the except clause without its return: the error is logged and the run goes on
list_and_group_no_return(e) ==
    /\ entry = e /\ pc = "list"
    /\ made' = made \cup {"list_accounts"}
    /\ \E fail \in BOOLEAN, accs \in Listings :
         /\ failed' = IF fail THEN failed \cup {"list_accounts"} ELSE failed
         /\ accounts' = IF fail THEN <<>> ELSE accs
         /\ groups' = group_accounts_by_workload(accounts')
         /\ IF groups' = EmptyDict
            THEN result' = "no_match" /\ pc' = "done" /\ idx' = idx
            ELSE /\ result' = result
                 /\ pc' = IF e = MainEntry THEN "load_metadata" ELSE "cost"
                 /\ idx' = 1
    /\ UNCHANGED <<entry, metadata, costResp, cost, events, recVars, rows, s3, callVars>>

\* get_all_accounts inside try, group_accounts_by_workload, the early return
list_and_group(e) ==
    /\ entry = e /\ pc = "list"
    /\ made' = made \cup {"list_accounts"}
    /\ \/ /\ failed' = failed \cup {"list_accounts"}
          /\ result' = "error"
          /\ pc' = "done"
          /\ UNCHANGED <<accounts, groups, idx>>
       \/ \E accs \in Listings :
            /\ failed' = failed
            /\ accounts' = accs
            /\ groups' = group_accounts_by_workload(accs)
            /\ IF groups' = EmptyDict
               THEN result' = "no_match" /\ pc' = "done" /\ idx' = idx
               ELSE /\ result' = result
                    /\ pc' = IF e = MainEntry THEN "load_metadata" ELSE "cost"
                    /\ idx' = 1
    /\ UNCHANGED <<entry, metadata, costResp, cost, events, recVars, rows, s3, callVars>>

\* one call of get_cost_for_workload from the loop over workload_accounts
cost_step(e) ==
    /\ entry = e /\ pc = "cost"
    /\ made' = made \cup {"cost"}
    /\ events' = Append(events, Event(groups[idx].key, "cost"))
    /\ \E resp \in CostResponses :
         LET r == get_cost_for_workload(resp)
         IN  /\ costResp' = resp
             /\ failed' = IF resp.kind = "error" THEN failed \cup {"cost"} ELSE failed
             /\ IF r.raised
                THEN Raise /\ cost' = cost
                ELSE cost' = r.value /\ pc' = "call" /\ result' = result
    /\ UNCHANGED <<entry, accounts, groups, idx, metadata, recVars, rows, s3, callVars>>

lh_get_caller_identity == get_caller_identity(LambdaEntry)

lh_list_and_group == list_and_group(LambdaEntry)

lh_get_cost == cost_step(LambdaEntry)

\* budget_amount, budget_name and the call of create_or_update_budget
lh_call_reconcile ==
    /\ entry = LambdaEntry /\ pc = "call"
    /\ \E up \in BOOLEAN :
         /\ IsTie(MarkupAmount(cost)) \/ ~up
         /\ EnterReconcile([name |-> budget_name(groups[idx].key),
                            amount |-> MarkupAmount(cost), tieUp |-> up,
                            ids |-> groups[idx].val, email |-> None])
    /\ pc' = "reconcile"
    /\ made' = made \cup {"budget"}
    /\ events' = Append(events, Event(groups[idx].key, "budget"))
    /\ UNCHANGED <<entry, result, accounts, groups, idx, metadata, costResp, cost, failed, rows, s3, callVars>>

\* create_or_update_budget has returned: break, then return success
lh_after_reconcile ==
    /\ entry = LambdaEntry /\ pc = "reconcile"
    /\ LeaveReconcile
    /\ failed' = IF Clean(calls) THEN failed ELSE failed \cup {"budget"}
    /\ result' = "success"
    /\ pc' = "done"
    /\ UNCHANGED <<entry, accounts, groups, idx, metadata, costResp, cost, made, events, rows, s3, callVars>>

lambda_handler ==
    \/ lh_get_caller_identity
    \/ lh_list_and_group
    \/ lh_get_cost
    \/ lh_call_reconcile
    \/ lh_after_reconcile

bh_get_caller_identity == get_caller_identity(MainEntry)

bh_list_and_group == list_and_group(MainEntry)

\* load_metadata_from_s3 without its try blocks: a failed read leaves the handler
bh_load_metadata_unguarded ==
    /\ entry = MainEntry /\ pc = "load_metadata"
    /\ made' = made \cup {"metadata"}
    /\ \E obj \in MetadataObjects :
         IF obj.kind = "ok"
         THEN /\ metadata' = obj.mapping
              /\ failed' = failed
              /\ pc' = "cost" /\ result' = result
         ELSE /\ metadata' = metadata
              /\ failed' = failed \cup {"metadata"}
              /\ Raise
    /\ UNCHANGED <<entry, accounts, groups, idx, costResp, cost, events, recVars, rows, s3, callVars>>

\* load_metadata_from_s3, called between the grouping and the loop
bh_load_metadata ==
    /\ entry = MainEntry /\ pc = "load_metadata"
    /\ made' = made \cup {"metadata"}
    /\ \E obj \in MetadataObjects :
         /\ metadata' = load_metadata_from_s3(obj)
         /\ failed' = IF obj.kind = "ok" THEN failed ELSE failed \cup {"metadata"}
    /\ pc' = "cost"
    /\ UNCHANGED <<entry, result, accounts, groups, idx, costResp, cost, events, recVars, rows, s3, callVars>>

bh_get_cost == cost_step(MainEntry)

\* the floor, budget_name, workload_email and the call of create_or_update_budget
bh_call_reconcile ==
    /\ entry = MainEntry /\ pc = "call"
    /\ cost' = FloorCost(cost)
    /\ EnterReconcile([name |-> budget_name(groups[idx].key),
                       amount |-> FloorCost(cost) * 100, tieUp |-> FALSE,
                       ids |-> groups[idx].val,
                       email |-> retrieve_metadata_per_workload(
                                     groups[idx].key, groups[idx].val, metadata)])
    /\ pc' = "reconcile"
    /\ made' = made \cup {"budget"}
    /\ events' = Append(events, Event(groups[idx].key, "budget"))
    /\ UNCHANGED <<entry, result, accounts, groups, idx, metadata, costResp, failed, rows, s3, callVars>>

\* create_or_update_budget has returned: next workload, or return success
bh_after_reconcile ==
    /\ entry = MainEntry /\ pc = "reconcile"
    /\ LeaveReconcile
    /\ failed' = IF Clean(calls) THEN failed ELSE failed \cup {"budget"}
    /\ IF idx < Len(groups)
       THEN idx' = idx + 1 /\ pc' = "cost" /\ result' = result
       ELSE idx' = idx /\ pc' = "done" /\ result' = "success"
    /\ UNCHANGED <<entry, accounts, groups, metadata, costResp, cost, made, events, rows, s3, callVars>>

handler ==
    \/ bh_get_caller_identity
    \/ bh_list_and_group
    \/ bh_load_metadata
    \/ bh_get_cost
    \/ bh_call_reconcile
    \/ bh_after_reconcile

-----------------------------------------------------------------------------
(* Metadata Harvester (src/metadata_retriever/main.py) *)

\* str.rsplit("-", 1)[0]: the text before the last hyphen, not the first
SplitFirst_last(s) == IF HasHyphen(s) THEN SubSeq(s, 1, LastHyphen(s) - 1) ELSE s

\* str.split("-")[0]
SplitFirst(s) == IF HasHyphen(s) THEN SubSeq(s, 1, FirstHyphen(s) - 1) ELSE s

\* account_id and workload_env are texts (sequences of tokens)
split_workload(account_id, workload_env) ==
    IF HasHyphen(workload_env) THEN SplitFirst(workload_env)
    ELSE IF account_id = workload_env THEN NotFoundText
    ELSE workload_env

\* row["account_id"] as a text: the account ids of the extract are hyphen-free
IdText(account_id) == <<account_id>>

\* the character tests of identify_platform, tabulated for the tokens of the model
StartsWithBsp(workload) == workload \in {<<"bsp">>, <<"bspcore">>}

IsDataplatform(workload) ==
    workload \in {<<"dp">>, <<"dplake">>, <<"dataplatform">>, <<"marketingdata">>, <<"hrpoc">>}

identify_platform(workload) ==
    IF StartsWithBsp(workload) THEN "bsp"
    ELSE IF IsDataplatform(workload) THEN "dataplatform"
    ELSE "NA"

\* d[k] = v
DictPut(d, k, v) ==
    IF k \in DictKeys(d)
    THEN [i \in 1..Len(d) |-> IF d[i].key = k THEN [key |-> k, val |-> v] ELSE d[i]]
    ELSE Append(d, [key |-> k, val |-> v])

RECURSIVE AugmentFrom(_, _, _, _)
AugmentFrom(field, data, i, m) ==
    IF i > Len(data) THEN m
    ELSE AugmentFrom(field, data, i + 1,
             IF data[i][field] # ""
             THEN DictPut(m, split_workload(IdText(data[i].account_id), data[i].name), data[i][field])
             ELSE m)

augment_missing_data(field, data) == AugmentFrom(field, data, 1, EmptyDict)

remove_snow_team(temp_dict, workload) ==
    IF workload = NotFoundText
    THEN [temp_dict EXCEPT !.assignment_group = "Not found", !.email = "Not found"]
    ELSE temp_dict

cudos_dict_format(row, assignment_group_mapping, email_mapping) ==
    LET workload == split_workload(IdText(row.account_id), row.name)
    IN  remove_snow_team(
            [account_id |-> row.account_id,
             name |-> row.name,
             workload |-> workload,
             workload_type |-> identify_platform(workload),
             environment |-> row.environment,
             assignment_group |-> DictGet(assignment_group_mapping, workload, ""),
             email |-> DictGet(email_mapping, workload, "")],
            workload)

format_cudos_data(dict_list, assignment_group_mapping, email_mapping) ==
    [i \in 1..Len(dict_list) |->
        cudos_dict_format(dict_list[i], assignment_group_mapping, email_mapping)]

budget_dict_format(row, assignment_group_mapping, email_mapping) ==
    LET workload == split_workload(IdText(row.account_id), row.name)
    IN  [name |-> row.name,
         workload |-> workload,
         workload_type |-> identify_platform(workload),
         environment |-> row.environment,
         assignment_group |-> DictGet(assignment_group_mapping, workload, ""),
         email |-> DictGet(email_mapping, workload, "")]

RECURSIVE BudgetDataFrom(_, _, _, _, _)
BudgetDataFrom(dict_list, agm, em, i, d) ==
    IF i > Len(dict_list) THEN d
    ELSE BudgetDataFrom(dict_list, agm, em, i + 1,
             DictPut(d, dict_list[i].account_id, budget_dict_format(dict_list[i], agm, em)))

format_budget_data(dict_list, assignment_group_mapping, email_mapping) ==
    BudgetDataFrom(dict_list, assignment_group_mapping, email_mapping, 1, EmptyDict)

Row(name, account_id, environment, assignment_group, email) ==
    [name |-> name, account_id |-> account_id, environment |-> environment,
     assignment_group |-> assignment_group, email |-> email]

\* what the CMDB endpoint can answer: no answer, bytes that are not UTF-8, a CSV
Extracts ==
    { [kind |-> "fetch_failed", rows |-> <<>>],
      [kind |-> "not_utf8", rows |-> <<>>],
      [kind |-> "csv", rows |-> <<>>],
      [kind |-> "csv", rows |->
          <<Row(<<"app", "-", "prod">>, "111", "prod", "team-a", "a@example.org"),
            Row(<<"app", "-", "dev">>, "222", "dev", "", "")>>],
      [kind |-> "csv", rows |->
          <<Row(<<"app", "-", "prod">>, "111", "prod", "team-a", "a@example.org"),
            Row(<<"app", "-", "dev">>, "222", "dev", "team-b", "b@example.org"),
            Row(<<"333">>, "333", "", "snow", "snow@example.org")>>],
      [kind |-> "csv", rows |->
          <<Row(<<"bsp", "-", "prod">>, "111", "prod", "", ""),
            Row(<<"noenv">>, "222", "", "team-c", "")>>] }

PutObject(store, key, content) == [store EXCEPT ![key] = [written |-> TRUE, body |-> content]]

\* urlopen + read, then decode_snow_data: neither is inside a try block
hv_fetch_and_decode ==
    /\ entry = HarvesterEntry /\ pc = "start"
    /\ \E x \in Extracts :
         IF x.kind = "fetch_failed"
         THEN /\ made' = made \cup {"fetch"}
              /\ failed' = failed \cup {"fetch"}
              /\ Raise /\ rows' = rows
         ELSE IF x.kind = "not_utf8"
         THEN /\ made' = made \cup {"fetch", "decode"}
              /\ failed' = failed \cup {"decode"}
              /\ Raise /\ rows' = rows
         ELSE /\ made' = made \cup {"fetch", "decode"}
              /\ failed' = failed
              /\ rows' = x.rows
              /\ pc' = "store_cudos" /\ result' = result
    /\ UNCHANGED <<entry, accounts, groups, idx, metadata, costResp, cost, events, recVars, s3, callVars>>

\* put_object inside a try block: a failed write is logged and the handler goes on
hv_store_cudos_swallow ==
    /\ entry = HarvesterEntry /\ pc = "store_cudos"
    /\ made' = made \cup {"put_cudos"}
    /\ \E fail \in BOOLEAN :
         /\ failed' = IF fail THEN failed \cup {"put_cudos"} ELSE failed
         /\ s3' = IF fail THEN s3
                  ELSE PutObject(s3, "cudos",
                         format_cudos_data(rows,
                             augment_missing_data("assignment_group", rows),
                             augment_missing_data("email", rows)))
         /\ pc' = "store_budget" /\ result' = result
    /\ UNCHANGED <<entry, accounts, groups, idx, metadata, costResp, cost, events, recVars, rows, callVars>>

\* the two augmentations, format_cudos_data and store_hive_json_objects_in_s3
hv_store_cudos ==
    /\ entry = HarvesterEntry /\ pc = "store_cudos"
    /\ made' = made \cup {"put_cudos"}
    /\ \E fail \in BOOLEAN :
         IF fail
         THEN failed' = failed \cup {"put_cudos"} /\ Raise /\ s3' = s3
         ELSE /\ failed' = failed
              /\ s3' = PutObject(s3, "cudos",
                         format_cudos_data(rows,
                             augment_missing_data("assignment_group", rows),
                             augment_missing_data("email", rows)))
              /\ pc' = "store_budget" /\ result' = result
    /\ UNCHANGED <<entry, accounts, groups, idx, metadata, costResp, cost, events, recVars, rows, callVars>>

\* format_budget_data and store_json_in_s3, then return success
hv_store_budget ==
    /\ entry = HarvesterEntry /\ pc = "store_budget"
    /\ made' = made \cup {"put_finops_automation"}
    /\ \E fail \in BOOLEAN :
         IF fail
         THEN failed' = failed \cup {"put_finops_automation"} /\ Raise /\ s3' = s3
         ELSE /\ failed' = failed
              /\ s3' = PutObject(s3, "finops_automation",
                         format_budget_data(rows,
                             augment_missing_data("assignment_group", rows),
                             augment_missing_data("email", rows)))
              /\ pc' = "done" /\ result' = "success"
    /\ UNCHANGED <<entry, accounts, groups, idx, metadata, costResp, cost, events, recVars, rows, callVars>>

harvester_handler ==
    \/ hv_fetch_and_decode
    \/ hv_store_cudos
    \/ hv_store_budget

-----------------------------------------------------------------------------
(* One invocation of one entry point *)
Init ==
    /\ entry \in {LambdaEntry, MainEntry, HarvesterEntry}
    /\ platform \in PriorPlatforms
    /\ pc = "start"
    /\ result = "none"
    /\ accounts = <<>>
    /\ groups = EmptyDict
    /\ idx = 0
    /\ metadata = EmptyDict
    /\ costResp = [kind |-> "none", amount |-> 0]
    /\ cost = 0
    /\ made = {}
    /\ failed = {}
    /\ events = <<>>
    /\ RecIdle /\ S3Idle /\ CallIdle

Next ==
    \/ lambda_handler
    \/ handler
    \/ LambdaReconcile
    \/ MainReconcile
    \/ harvester_handler

Spec == Init /\ [][Next]_vars

-----------------------------------------------------------------------------
(* group_accounts_by_workload applied to every listing of at most MaxAccounts
   accounts *)
GroupInit ==
    /\ entry \in {LambdaEntry, MainEntry}
    /\ platform \in {[n \in BudgetNames |-> NoBudget]}
    /\ accounts \in SeqsUpTo(AccountSet, MaxAccounts)
    /\ pc = "group_in"
    /\ result = "none"
    /\ groups = EmptyDict
    /\ idx = 0
    /\ metadata = EmptyDict
    /\ costResp = [kind |-> "none", amount |-> 0]
    /\ cost = 0
    /\ made = {}
    /\ failed = {}
    /\ events = <<>>
    /\ RecIdle /\ S3Idle /\ CallIdle

apply_group ==
    /\ pc = "group_in"
    /\ groups' = group_accounts_by_workload(accounts)
    /\ pc' = "group_out"
    /\ UNCHANGED <<entry, result, accounts, idx, metadata, costResp, cost, made, failed, events,
                   recVars, rows, s3, callVars>>

GroupNext == apply_group

SpecGroup == GroupInit /\ [][GroupNext]_vars

-----------------------------------------------------------------------------
(* get_previous_month_date_range (lambda_function.py and
   src/budgetsetter/main.py: the same code in both) *)
Date(y, m, d) == [year |-> y, month |-> m, day |-> d]

IsLeap(y) == (y % 4 = 0 /\ y % 100 # 0) \/ y % 400 = 0

DaysIn(y, m) ==
    IF m = 2 THEN (IF IsLeap(y) THEN 29 ELSE 28)
    ELSE IF m \in {4, 6, 9, 11} THEN 30
    ELSE 31

\* date.replace(day=1)
ReplaceDay1(date) == Date(date.year, date.month, 1)

\* the day before, without the step into the year before: the day before
\* 1 January is 31 December of the same year
PrevDay_same_year(date) ==
    IF date.day > 1 THEN Date(date.year, date.month, date.day - 1)
    ELSE IF date.month > 1
    THEN Date(date.year, date.month - 1, DaysIn(date.year, date.month - 1))
    ELSE Date(date.year, 12, 31)

\* date - datetime.timedelta(days=1)
PrevDay(date) ==
    IF date.day > 1 THEN Date(date.year, date.month, date.day - 1)
    ELSE IF date.month > 1
    THEN Date(date.year, date.month - 1, DaysIn(date.year, date.month - 1))
    ELSE Date(date.year - 1, 12, 31)

Pad2(n) == IF n < 10 THEN "0" \o ToString(n) ELSE ToString(n)

Pad4(n) ==
    IF n < 10 THEN "000" \o ToString(n)
    ELSE IF n < 100 THEN "00" \o ToString(n)
    ELSE IF n < 1000 THEN "0" \o ToString(n)
    ELSE ToString(n)

\* date.strftime("%Y-%m-%d")
strftime(date) == Pad4(date.year) \o "-" \o Pad2(date.month) \o "-" \o Pad2(date.day)

get_previous_month_date_range(today) ==
    LET first_day_current_month == ReplaceDay1(today)
        last_day_previous_month == PrevDay(first_day_current_month)
        first_day_previous_month == ReplaceDay1(last_day_previous_month)
    IN  <<strftime(first_day_previous_month), strftime(first_day_current_month)>>

-----------------------------------------------------------------------------
(* The functions without side effects, each called on its own on every
   argument of a bounded set *)
MaxIds == 3

MaxTokens == 3

Years == 2023..2025

\* every date of these years
Todays ==
    {t \in {Date(y, m, d) : y \in Years, m \in 1..12, d \in 1..31} :
        t.day <= DaysIn(t.year, t.month)}

DateCalls == {[fn |-> "get_previous_month_date_range", args |-> <<t>>] : t \in Todays}

\* texts of at most MaxTokens tokens; two pieces of text never stand side by
\* side without a hyphen between them
Tokens == {Hyphen, "app", "prod", "123456789012"}

WellFormed(s) == \A i \in 1..(Len(s) - 1) : s[i] = Hyphen \/ s[i + 1] = Hyphen

Texts == {s \in SeqsUpTo(Tokens, MaxTokens) : WellFormed(s)}

SplitCalls == {[fn |-> "split_workload", args |-> <<a, w>>] : a \in Texts, w \in Texts}

LookupWorkloads ==
    ignore_emails_for_workloads \cup {NotFoundText, <<"app">>, <<"my", "-", "app">>}

LookupIds == <<"111", "222", "333">>

Absent == "<absent>"

LookupEmails == {None, "", "a@example.org", "b@example.org"}

\* the mapping that holds, for each id with f[id] # Absent, the email f[id]
MappingOf(f) ==
    LET present == SelectSeq(LookupIds, LAMBDA k : f[k] # Absent)
    IN  [i \in 1..Len(present) |-> [key |-> present[i], val |-> [email |-> f[present[i]]]]]

LookupMappings ==
    {MappingOf(f) : f \in [SeqRange(LookupIds) -> LookupEmails \cup {Absent}]}
    \cup {NullMapping}

LookupCalls ==
    {[fn |-> "retrieve_metadata_per_workload", args |-> <<w, ids, m>>] :
        w \in LookupWorkloads, ids \in SeqsUpTo(SeqRange(LookupIds), MaxIds),
        m \in LookupMappings}

CallsInit ==
    /\ entry \in {MainEntry}
    /\ platform \in {[n \in BudgetNames |-> NoBudget]}
    /\ frame \in DateCalls \cup SplitCalls \cup LookupCalls
    /\ ret = None
    /\ pc = "call_in"
    /\ result = "none"
    /\ accounts = <<>>
    /\ groups = EmptyDict
    /\ idx = 0
    /\ metadata = EmptyDict
    /\ costResp = [kind |-> "none", amount |-> 0]
    /\ cost = 0
    /\ made = {}
    /\ failed = {}
    /\ events = <<>>
    /\ RecIdle /\ S3Idle

Return(value) ==
    /\ pc = "call_in"
    /\ ret' = value
    /\ pc' = "call_out"
    /\ UNCHANGED <<entry, result, accounts, groups, idx, metadata, costResp, cost, made, failed,
                   events, recVars, rows, s3, frame>>

call_get_previous_month_date_range ==
    /\ frame.fn = "get_previous_month_date_range"
    /\ Return(get_previous_month_date_range(frame.args[1]))

call_split_workload ==
    /\ frame.fn = "split_workload"
    /\ Return(split_workload(frame.args[1], frame.args[2]))

call_retrieve_metadata_per_workload ==
    /\ frame.fn = "retrieve_metadata_per_workload"
    /\ Return(retrieve_metadata_per_workload(frame.args[1], frame.args[2], frame.args[3]))

CallsNext ==
    \/ call_get_previous_month_date_range
    \/ call_split_workload
    \/ call_retrieve_metadata_per_workload

SpecCalls == CallsInit /\ [][CallsNext]_vars

-----------------------------------------------------------------------------
(* Properties of create_or_update_budget, under SpecReconcile *)

Budget == platform[rin.name]

ConfiguredThresholds == IF entry = LambdaEntry THEN {80, 100} ELSE {105, 120}

\* C1: with every API call succeeding, two consecutive calls with the same
\* arguments leave the platform after the second call as it was after the first:
\* one budget of that name with the same limit and exactly two notifications.
C1_Idempotent ==
    (rpc = "idle" /\ cleanRuns >= 2) =>
        /\ platform = snap
        /\ Budget.present
        /\ Budget.limit = BudgetLimit(rin)
        /\ Cardinality(Budget.notifs) = 2
        /\ Cardinality(Thresholds(Budget)) = 2

\* C2: after a call in which every API call succeeded, whatever the platform
\* held before, the budget exists with the computed limit and its notifications
\* are exactly the two configured thresholds; nothing of the prior definition
\* remains.
C2_ReplacesPrior ==
    (rpc = "idle" /\ cleanRuns >= 1) =>
        /\ Budget.present
        /\ Budget.limit = BudgetLimit(rin)
        /\ Budget.ids = rin.ids
        /\ Thresholds(Budget) = ConfiguredThresholds
        /\ Cardinality(Budget.notifs) = 2
        /\ \A n \in Budget.notifs : n.subs # OldSubscribers

OpsOf(log) == [i \in 1..Len(log) |-> log[i].op]

\* the calls the function makes, in order, given the answer of describe_budget
ExpectedOps(log) ==
    IF entry = LambdaEntry
    THEN <<"describe_budget",
           IF log[1].out = "ok" THEN "update_budget" ELSE "create_budget",
           "delete_notification", "create_notification",
           "delete_notification", "create_notification">>
    ELSE <<"describe_budget">>
         \o (IF log[1].out = "ok" THEN <<"delete_budget">> ELSE <<>>)
         \o <<"create_budget">>

\* what a successful call does to the platform
EffectOf(p, c) ==
    IF c.out # "ok" THEN p
    ELSE IF c.op = "update_budget"
    THEN [p EXCEPT ![c.name] = MkBudget(BudgetLimit(rin), rin.ids, p[c.name].notifs)]
    ELSE IF c.op = "create_budget"
    THEN [p EXCEPT ![c.name] = MkBudget(BudgetLimit(rin), rin.ids, c.notifs)]
    ELSE IF c.op = "delete_budget"
    THEN [p EXCEPT ![c.name] = NoBudget]
    ELSE IF c.op = "delete_notification"
    THEN [p EXCEPT ![c.name].notifs = {n \in @ : n.threshold # c.threshold}]
    ELSE IF c.op = "create_notification"
    THEN [p EXCEPT ![c.name].notifs = @ \cup c.notifs]
    ELSE p

RECURSIVE Replay(_, _, _)
Replay(p, log, i) == IF i > Len(log) THEN p ELSE Replay(EffectOf(p, log[i]), log, i + 1)

\* C3: every budget API call is guarded: whichever calls fail, the function
\* does not raise, it goes on to attempt every later call of its sequence, and
\* the platform holds the effects of exactly the calls that succeeded (nothing
\* is rolled back).
C3_Guarded ==
    /\ rpc # "raised"
    /\ rpc = "delete" => exists
    /\ rpc = "end" => OpsOf(calls) = ExpectedOps(calls)
    /\ rpc # "idle" => platform = Replay(snap, calls, 1)

\* C3 witness: delete_budget failed and create_budget was still attempted; the
\* function reached its end
C3_Witness ==
    /\ rpc = "end" /\ entry = MainEntry /\ Len(calls) = 3
    /\ calls[2].op = "delete_budget" /\ calls[2].out = "error"
    /\ calls[3].op = "create_budget" /\ calls[3].out = "Duplicate"

FinopsAddress == IF entry = LambdaEntry THEN LambdaFinops ELSE finops_email

Count(q, x) == Cardinality({i \in 1..Len(q) : q[i] = x})

\* C6: every notification submitted has the FinOps address exactly once, and the
\* workload address when, and only when, one was supplied (non-empty) and it
\* differs from the FinOps address; so it has one or two subscribers.
C6_SubscriberPolicy ==
    \A i \in 1..Len(calls) : \A n \in calls[i].notifs :
        /\ Count(n.subs, FinopsAddress) = 1
        /\ IF Truthy(rin.email) /\ rin.email # FinopsAddress
           THEN Len(n.subs) = 2 /\ Count(n.subs, rin.email) = 1
           ELSE Len(n.subs) = 1

-----------------------------------------------------------------------------
(* Properties of group_accounts_by_workload, under SpecGroup *)

\* k is the text before the last hyphen of name
BeforeLastHyphen(name, k) ==
    \E i \in 1..Len(name) :
        /\ name[i] = Hyphen
        /\ \A j \in (i + 1)..Len(name) : name[j] # Hyphen
        /\ k = SubSeq(name, 1, i - 1)

IdsOf(accs) == [i \in 1..Len(accs) |-> accs[i].id]

IdsForKey(accs, k) == IdsOf(SelectSeq(accs, LAMBDA a : BeforeLastHyphen(a.name, k)))

FirstWith(accs, k) ==
    CHOOSE j \in 1..Len(accs) :
        /\ BeforeLastHyphen(accs[j].name, k)
        /\ \A h \in 1..(j - 1) : ~BeforeLastHyphen(accs[h].name, k)

RECURSIVE TotalLen(_, _)
TotalLen(d, i) == IF i > Len(d) THEN 0 ELSE Len(d[i].val) + TotalLen(d, i + 1)

\* C5: each key maps to the IDs of exactly the accounts whose name has a hyphen
\* and whose text before the last hyphen is the key, in discovery order, repeats
\* kept; keys stand in the order their first account was discovered; no key is
\* without such an account; an account without hyphen is in no group.
C5_Grouping ==
    pc = "group_out" =>
        /\ \A i, j \in 1..Len(groups) : groups[i].key = groups[j].key => i = j
        /\ \A i \in 1..Len(groups) :
               /\ groups[i].val = IdsForKey(accounts, groups[i].key)
               /\ Len(groups[i].val) >= 1
        /\ \A j \in 1..Len(accounts) :
               HasHyphen(accounts[j].name) =>
                   \E i \in 1..Len(groups) : BeforeLastHyphen(accounts[j].name, groups[i].key)
        /\ \A i, j \in 1..Len(groups) :
               i < j => FirstWith(accounts, groups[i].key) < FirstWith(accounts, groups[j].key)
        /\ TotalLen(groups, 1) =
               Cardinality({j \in 1..Len(accounts) : HasHyphen(accounts[j].name)})

\* C5 witness: a name with two hyphens was grouped under the text before its
\* last hyphen, next to an account without hyphen that is in no group
C5_Witness ==
    /\ pc = "group_out"
    /\ Len(groups) = 1
    /\ groups[1].key = <<"my", "-", "app">>
    /\ \E j \in 1..Len(accounts) : ~HasHyphen(accounts[j].name)

-----------------------------------------------------------------------------
(* Properties of one invocation, under Spec *)

BudgetJob == entry \in {LambdaEntry, MainEntry}

RECURSIVE ExpectedEvents(_, _)
ExpectedEvents(d, i) ==
    IF i > Len(d) THEN <<>>
    ELSE <<Event(d[i].key, "cost"), Event(d[i].key, "budget")>> \o ExpectedEvents(d, i + 1)

\* C4: in a run whose account listing succeeded, every workload group is
\* processed exactly once, cost retrieval then reconciliation, one group after
\* the other in insertion order, whichever cost or budget calls failed.
C4_EveryWorkloadOnce ==
    (BudgetJob /\ pc = "done" /\ "list_accounts" \in made /\ "list_accounts" \notin failed) =>
        /\ result \in {"success", "no_match"}
        /\ events = ExpectedEvents(groups, 1)

\* what the cost query answered, as a cost in cents
RetrievedCost == IF costResp.kind = "amount" THEN costResp.amount ELSE 0

\* C7: the limit submitted for a workload: in the floor variant 50.00 when the
\* retrieved cost is below 50 and the retrieved cost otherwise, never below
\* 50.00; in the markup variant the retrieved cost times 1.15 rendered with two
\* decimals (200.00 gives 230.00).  A budget written by the call has that limit.
C7_LimitDerivation ==
    (BudgetJob /\ pc = "reconcile") =>
        /\ entry = MainEntry =>
               /\ BudgetLimit(rin) = (IF RetrievedCost < 5000 THEN 5000 ELSE RetrievedCost)
               /\ BudgetLimit(rin) >= 5000
        /\ entry = LambdaEntry =>
               /\ 100 * BudgetLimit(rin) - 115 * RetrievedCost \in -50..50
               /\ RetrievedCost = 20000 => BudgetLimit(rin) = 23000
        /\ \A i \in 1..Len(calls) :
               (calls[i].op \in {"create_budget", "update_budget"} /\ calls[i].out = "ok")
                   => (Budget.present => Budget.limit = BudgetLimit(rin))

\* C7 witness: a retrieved cost of 10.00 gave a budget of 50.00 in the floor
\* variant
C7_Witness ==
    /\ entry = MainEntry /\ pc = "reconcile" /\ rpc = "end"
    /\ costResp = [kind |-> "amount", amount |-> 1000]
    /\ Budget.present /\ Budget.limit = 5000
    /\ calls[Len(calls)].out = "ok"

\* C8: get_cost_for_workload never raises: it returns 0 when the query fails,
\* has no rows or has an unparsable amount, the first period's amount otherwise,
\* and the workload goes on to its reconciliation.
C8_CostNeverRaises ==
    /\ (BudgetJob /\ pc = "call") =>
           /\ result = "none"
           /\ cost = (IF costResp.kind \in {"error", "no_results", "bad_amount", "no_amount"}
                      THEN 0 ELSE costResp.amount)
    /\ (BudgetJob /\ result = "raised") => "cost" \notin made
    /\ (BudgetJob /\ pc = "done" /\ "cost" \in made) => (result = "success" /\ "budget" \in made)

\* C8 witness: the cost query failed, 0 was returned and the workload's budget
\* call was made
C8_Witness ==
    /\ BudgetJob /\ pc = "reconcile"
    /\ costResp.kind = "error" /\ "cost" \in failed
    /\ RetrievedCost = 0
    /\ result = "none"

\* C9: when the account listing fails the run returns the error result and has
\* made no cost query, no metadata read and no budget or notification call; the
\* budget platform is as it was.
C9_ListingFailureAborts ==
    (BudgetJob /\ "list_accounts" \in failed) =>
        /\ pc = "done" /\ result = "error"
        /\ made = {"identity", "list_accounts"}
        /\ events = <<>>
        /\ rpc = "idle" /\ runs = 0 /\ calls = <<>>
        /\ platform = prior

\* C9 witness: a run whose listing failed, over a platform that holds budgets
C9_Witness ==
    /\ entry = MainEntry /\ "list_accounts" \in failed /\ result = "error"
    /\ platform[AppBudget].present

\* C10 as stated: an invocation ends without a status structure only in the
\* harvester, and only by a failure of the fetch or of the decoding.
C10_OnlyFetchOrDecodeRaise ==
    result = "raised" =>
        /\ entry = HarvesterEntry
        /\ failed \cap {"fetch", "decode"} # {}

\* C10 as amended: an invocation ends without a status structure exactly when,
\* in the budget job, the identity lookup failed, or, in the harvester, the
\* fetch, the decoding or one of the two object-store writes failed; every other
\* failing call of the budget job leaves a run that returns a status structure.
C10_RaisingFailures ==
    /\ result = "raised" <=>
           \/ BudgetJob /\ "identity" \in failed
           \/ entry = HarvesterEntry /\ failed # {}
    /\ result = "raised" => pc = "done"
    /\ pc = "done" => result \in {"success", "no_match", "error", "raised"}
    /\ (BudgetJob /\ failed \cap {"list_accounts", "cost", "metadata", "budget"} # {})
           => result # "raised"
    /\ (entry = HarvesterEntry /\ result = "raised")
           => Cardinality(failed) = 1
              /\ failed \subseteq {"fetch", "decode", "put_cudos", "put_finops_automation"}

\* C10 witness: the second object-store write failed after the first artifact
\* was written, and the harvester raised
C10_Witness ==
    /\ entry = HarvesterEntry /\ result = "raised"
    /\ failed = {"put_finops_automation"}
    /\ s3["cudos"].written /\ ~s3["finops_automation"].written

-----------------------------------------------------------------------------
(* Properties of the functions called on their own, under SpecCalls *)

Returned(fn) == frame.fn = fn /\ pc = "call_out"

\* the email the mapping holds for an account id, None when it holds none
EmailOf(mapping, id) ==
    IF \E i \in 1..Len(mapping) : mapping[i].key = id
    THEN mapping[CHOOSE i \in 1..Len(mapping) : mapping[i].key = id].val.email
    ELSE None

C16_SplitWorkload ==
    Returned("split_workload") =>
        LET account_id == frame.args[1]
            workload_env == frame.args[2]
        IN  /\ IF \E i \in 1..Len(workload_env) : workload_env[i] = Hyphen
               THEN \E i \in 1..Len(workload_env) :
                        /\ workload_env[i] = Hyphen
                        /\ \A j \in 1..(i - 1) : workload_env[j] # Hyphen
                        /\ ret = SubSeq(workload_env, 1, i - 1)
               ELSE IF workload_env = account_id THEN ret = <<"Not found">>
               ELSE ret = workload_env
            /\ (account_id = <<"123456789012">> /\ workload_env = <<"123456789012">>)
                   => ret = <<"Not found">>
            /\ workload_env = <<"app", "-", "prod">> => ret = <<"app">>
            /\ (account_id = <<"app">> /\ workload_env = <<"prod">>) => ret = <<"prod">>

\* C16 witness: workload_env equals account_id and has two hyphens; the text
\* before the first one was returned, not the sentinel
C16_Witness ==
    /\ Returned("split_workload")
    /\ frame.args[1] = frame.args[2]
    /\ frame.args[2] = <<"app", "-", "-">>
    /\ ret = <<"app">>

-----------------------------------------------------------------------------
(* Properties of the metadata read and of the harvester's records, under Spec *)

FinopsOnly(notifs) == \A n \in notifs : n.subs = <<finops_email>>

\* C12: a failed read of the metadata object (missing, undecodable, malformed)
\* gives the empty mapping without raising; the run goes on through every
\* workload, and every notification of every budget it creates has the FinOps
\* address as its only subscriber.
C12_MetadataFailureRecovered ==
    (entry = MainEntry /\ "metadata" \in failed) =>
        /\ metadata = EmptyDict
        /\ result # "raised"
        /\ pc \in {"cost", "call", "reconcile", "done"}
        /\ pc = "done" => (result = "success" /\ events = ExpectedEvents(groups, 1))
        /\ rpc # "idle" => rin.email = None
        /\ \A i \in 1..Len(calls) : FinopsOnly(calls[i].notifs)
        /\ \A k \in 1..Len(events) :
               LET name == budget_name(events[k].workload)
               IN  (platform[name].present /\ platform[name] # prior[name])
                       => (Cardinality(platform[name].notifs) = 2
                           /\ FinopsOnly(platform[name].notifs))

\* C12 witness: the read failed, the run ended with success and created the
\* budget of workload app, whose two notifications go to the FinOps address only
C12_Witness ==
    /\ entry = MainEntry /\ "metadata" \in failed
    /\ pc = "done" /\ result = "success"
    /\ platform[AppBudget].present /\ platform[AppBudget] # prior[AppBudget]
    /\ Cardinality(platform[AppBudget].notifs) = 2
    /\ FinopsOnly(platform[AppBudget].notifs)

\* the row has no real name: its name is its account id, and has no hyphen
IsSentinelRow(row) == ~HasHyphen(row.name) /\ row.name = <<row.account_id>>

NoRecord == [assignment_group |-> "<missing>", email |-> "<missing>"]

\* C13: in both artifacts, the record of every row whose derived workload is
\* the 'Not found' sentinel has assignment_group = 'Not found' and
\* email = 'Not found', whatever the backfill mappings hold.
C13_SentinelRule ==
    /\ s3["cudos"].written =>
           \A i \in 1..Len(rows) :
               IsSentinelRow(rows[i]) =>
                   /\ s3["cudos"].body[i].assignment_group = "Not found"
                   /\ s3["cudos"].body[i].email = "Not found"
    /\ s3["finops_automation"].written =>
           \A i \in 1..Len(rows) :
               IsSentinelRow(rows[i]) =>
                   LET rec == DictGet(s3["finops_automation"].body, rows[i].account_id, NoRecord)
                   IN  /\ rec.assignment_group = "Not found"
                       /\ rec.email = "Not found"

\* the workload of a row that is no sentinel row
DerivedWorkload(row) == IF HasHyphen(row.name) THEN SplitFirst(row.name) ELSE row.name

\* value is what the policy "own value, else backfilled by workload" allows for
\* the field of row i
OwnElseBackfilled(field, i, value) ==
    IF rows[i][field] # "" THEN value = rows[i][field]
    ELSE LET donors == {j \in 1..Len(rows) :
                            /\ ~IsSentinelRow(rows[j])
                            /\ DerivedWorkload(rows[j]) = DerivedWorkload(rows[i])
                            /\ rows[j][field] # ""}
         IN  IF donors = {} THEN value = ""
             ELSE \E j \in donors : value = rows[j][field]

\* C14: for every row whose derived workload is not the sentinel, the output
\* assignment_group is the row's own value when that is non-empty, and only
\* when it is blank the value backfilled from another row of the same workload;
\* the email follows the same policy.  Two rows of one workload with different
\* non-empty values each keep their own.
C14_OwnValueFirst ==
    /\ s3["cudos"].written =>
           \A i \in 1..Len(rows) :
               ~IsSentinelRow(rows[i]) =>
                   /\ OwnElseBackfilled("assignment_group", i,
                                        s3["cudos"].body[i].assignment_group)
                   /\ OwnElseBackfilled("email", i, s3["cudos"].body[i].email)
    /\ s3["finops_automation"].written =>
           \A i \in 1..Len(rows) :
               ~IsSentinelRow(rows[i]) =>
                   LET rec == DictGet(s3["finops_automation"].body, rows[i].account_id, NoRecord)
                   IN  /\ OwnElseBackfilled("assignment_group", i, rec.assignment_group)
                       /\ OwnElseBackfilled("email", i, rec.email)

-----------------------------------------------------------------------------
(* Properties of create_or_update_budget under failure and of what it leaves
   alone *)

\* the budget existed when the call started, and the existence check failed
\* with an error other than not-found, or the delete call failed
ReplaceFailed ==
    /\ entry = MainEntry /\ rpc # "idle"
    /\ snap[rin.name].present
    /\ Len(calls) >= 1
    /\ \/ calls[1].out = "error"
       \/ Len(calls) >= 2 /\ calls[2].op = "delete_budget" /\ calls[2].out # "ok"

\* C17: in the delete-and-recreate variant, when the budget exists and the
\* existence check fails with an error other than not-found or the delete fails,
\* the create is still attempted; it is rejected as a duplicate (unless that
\* call fails for another reason), and the budget keeps its prior limit, cost
\* filters and notifications.
C17_FailedReplaceKeepsBudget ==
    ReplaceFailed =>
        /\ rpc \in {"create", "end"}
        /\ platform[rin.name] = snap[rin.name]
        /\ platform[rin.name].present
        /\ rpc = "end" =>
               /\ calls[Len(calls)].op = "create_budget"
               /\ calls[Len(calls)].out # "ok"
               /\ calls[Len(calls)].out # "error" => calls[Len(calls)].out = "Duplicate"

\* C17 witness: the existence check failed for a budget that exists with
\* notifications; no delete was attempted, the create was rejected as a
\* duplicate
C17_Witness ==
    /\ entry = MainEntry /\ rpc = "end" /\ Len(calls) = 2
    /\ calls[1].op = "describe_budget" /\ calls[1].out = "error"
    /\ calls[2].op = "create_budget" /\ calls[2].out = "Duplicate"
    /\ snap[rin.name].present /\ snap[rin.name].notifs # {}
    /\ platform[rin.name] = snap[rin.name]

BudgetEvents == {k \in 1..Len(events) : events[k].step = "budget"}

\* C18: every budget API call of a call of create_or_update_budget names the
\* budget of that call, and every budget of another name is as it was; distinct
\* workload keys have distinct budget names, so within a run each budget is
\* written for at most one workload group, and a budget of no processed workload
\* is as it was before the run.
C18_Frame ==
    /\ \A i \in 1..Len(calls) : calls[i].name = rin.name
    /\ rpc # "idle" => \A n \in BudgetNames \ {rin.name} : platform[n] = snap[n]
    /\ (BudgetJob /\ rpc # "idle") => rin.name = budget_name(groups[idx].key)
    /\ \A i, j \in 1..Len(groups) :
           budget_name(groups[i].key) = budget_name(groups[j].key) => i = j
    /\ \A i, j \in BudgetEvents :
           budget_name(events[i].workload) = budget_name(events[j].workload) => i = j
    /\ \A n \in BudgetNames :
           (\A k \in BudgetEvents : budget_name(events[k].workload) # n)
               => platform[n] = prior[n]

\* C18 witness: the budget of workload app was written while the budget of
\* workload my-app, which exists, is as it was before the run
C18_Witness ==
    /\ entry = MainEntry /\ rpc = "end"
    /\ Len(groups) = 2
    /\ rin.name = AppBudget
    /\ platform[AppBudget] # snap[AppBudget]
    /\ platform[MyAppBudget].present
    /\ platform[MyAppBudget] = prior[MyAppBudget]

=============================================================================
